---- MODULE Spec2Model ----
(***************************************************************************)
(* The listing edit page of kisanmarkaz: the enum registry and the         *)
(* validation schema (src/src/schemas/listing.ts), the type guards         *)
(* (src/src/lib/typeGuards.ts) and the two versions of the edit page,      *)
(* page "A" = src/src/pages/EditListing.tsx and page "B" =                 *)
(* src/unnamed/part_000.                                                   *)
(*                                                                         *)
(* JavaScript values are records [t |-> type tag, v |-> payload].  A       *)
(* string's payload is its sequence of characters, a number's payload is   *)
(* the number in hundredths (12.5 is 1250), an array's payload is the      *)
(* sequence of its elements.                                               *)
(***************************************************************************)
EXTENDS Integers, Sequences, FiniteSets, TLC

VARIABLES
    page,          \* which version of the edit page runs: "A" or "B"
    user,          \* useAuth().user: a user id, or NoUser
    remote,        \* the record the remote data store holds for the route id
    listing,       \* useQuery state: [status, data]
    resetState,    \* outcome of the reset effect: "none", "ok" or "threw"
    draft,         \* react-hook-form values: field name -> JS value
    images,        \* page B: useState<string[]> images
    isUploading,   \* page B: useState isUploading
    isSubmitting,  \* page A: useState isSubmitting
    uploads,       \* unresolved storage.uploadImages calls (set of call ids)
    deletes,       \* unresolved storage.deleteImage calls (set of [id, url])
    updates,       \* unresolved updateListing.mutateAsync calls (set of [id, data])
    calls,         \* the storage calls so far: [upload, delete, added, removed, overlapped]
    nav,           \* the route navigated to, "" while on the edit page
    last,          \* the last handler step: [op, toast, url, before, errors, file]
    fn             \* a pure function's application: [name, arg, res, done]

vars == <<page, user, remote, listing, resetState, draft, images,
          isUploading, isSubmitting, uploads, deletes, updates, calls,
          nav, last, fn>>

(***************************************************************************)
(* Bounds of the model.                                                    *)
(***************************************************************************)
MaxEdits == 1
MaxUploads == 2
MaxDeletes == 2
MaxSubmits == 2

(***************************************************************************)
(* JavaScript values.                                                      *)
(***************************************************************************)
Str(cs) == [t |-> "string", v |-> cs]
Num(n) == [t |-> "number", v |-> n]
Arr(s) == [t |-> "array", v |-> s]
Bool(b) == [t |-> "boolean", v |-> b]
Null == [t |-> "null", v |-> <<>>]
Undefined == [t |-> "undefined", v |-> <<>>]
NaN == [t |-> "nan", v |-> <<>>]
Obj == [t |-> "object", v |-> <<>>]

\* typeof value === 'string'
IsString(x) == x.t = "string"

\* JavaScript truthiness, as used by `x || y` and `if (x)`
Truthy(x) ==
    CASE x.t = "string" -> x.v # <<>>
      [] x.t = "number" -> x.v # 0
      [] x.t = "boolean" -> x.v
      [] x.t \in {"array", "object"} -> TRUE
      [] OTHER -> FALSE

\* x || y
OrElse(x, y) == IF Truthy(x) THEN x ELSE y

(***************************************************************************)
(* The strings the model uses, as character sequences.                     *)
(***************************************************************************)
S_empty == <<>>
S_yes == <<"y", "e", "s">>
S_no == <<"n", "o">>
S_new == <<"n", "e", "w">>
S_excellent == <<"e", "x", "c", "e", "l", "l", "e", "n", "t">>
S_good == <<"g", "o", "o", "d">>
S_fair == <<"f", "a", "i", "r">>
S_poor == <<"p", "o", "o", "r">>
S_organic == <<"o", "r", "g", "a", "n", "i", "c">>
S_gap == <<"g", "a", "p">>
S_other == <<"o", "t", "h", "e", "r">>
S_advance == <<"a", "d", "v", "a", "n", "c", "e">>
S_partial == <<"p", "a", "r", "t", "i", "a", "l">>
S_delivery == <<"d", "e", "l", "i", "v", "e", "r", "y">>
S_credit == <<"c", "r", "e", "d", "i", "t">>
S_active == <<"a", "c", "t", "i", "v", "e">>
S_sold == <<"s", "o", "l", "d">>
S_expired == <<"e", "x", "p", "i", "r", "e", "d">>
S_draft == <<"d", "r", "a", "f", "t">>
S_total == <<"t", "o", "t", "a", "l">>
S_per_kg == <<"p", "e", "r", "_", "k", "g">>
S_per_piece == <<"p", "e", "r", "_", "p", "i", "e", "c", "e">>
S_kg == <<"k", "g">>
S_piece == <<"p", "i", "e", "c", "e">>
S_ton == <<"t", "o", "n">>
S_quintal == <<"q", "u", "i", "n", "t", "a", "l">>
\* strings that are in no registry
S_SOLD_OUT == <<"S", "O", "L", "D", "_", "O", "U", "T">>
S_Active == <<"A", "c", "t", "i", "v", "e">>
S_YES == <<"Y", "E", "S">>
S_per_acre == <<"p", "e", "r", "_", "a", "c", "r", "e">>
S_tons == <<"t", "o", "n", "s">>
S_space == <<" ">>
S_abc == <<"a", "b", "c">>
S_c1 == <<"c", "1">>
S_0 == <<"0">>
S_3 == <<"3">>
S_12_5 == <<"1", "2", ".", "5">>
S_a_at_b_com == <<"a", "@", "b", ".", "c", "o", "m">>
S_not_an_email == <<"n", "o", "t", "-", "a", "n", "-", "e", "m", "a", "i", "l">>
S_a_at_b == <<"a", "@", "b">>

(***************************************************************************)
(* Enum registry: src/src/schemas/listing.ts.  Each registry is the        *)
(* sequence Object.values returns for it.                                  *)
(***************************************************************************)
YesNoEnum == <<S_yes, S_no>>
ConditionEnum == <<S_new, S_excellent, S_good, S_fair, S_poor>>
CertificationEnum == <<S_empty, S_organic, S_gap, S_other>>
PaymentTermsEnum == <<S_empty, S_advance, S_partial, S_delivery, S_credit>>
ListingStatusEnum == <<S_active, S_sold, S_expired, S_draft>>
PriceUnitEnum == <<S_total, S_per_kg, S_per_piece>>
QuantityUnitEnum == <<S_kg, S_piece, S_ton, S_quintal>>

\* Array.prototype.includes
Includes(seq, x) == \E i \in DOMAIN seq : seq[i] = x

Range(seq) == {seq[i] : i \in DOMAIN seq}

(***************************************************************************)
(* Type guards: src/src/lib/typeGuards.ts.                                 *)
(***************************************************************************)
isYesNo(value) == IsString(value) /\ Includes(YesNoEnum, value.v)

isCertification_wrongEnum(value) ==
    IsString(value) /\ Includes(PaymentTermsEnum, value.v)

isCertification(value) == IsString(value) /\ Includes(CertificationEnum, value.v)

isCondition(value) == IsString(value) /\ Includes(ConditionEnum, value.v)

isPaymentTerms(value) == IsString(value) /\ Includes(PaymentTermsEnum, value.v)

isListingStatus(value) == IsString(value) /\ Includes(ListingStatusEnum, value.v)

isPriceUnit(value) == IsString(value) /\ Includes(PriceUnitEnum, value.v)

isQuantityUnit(value) == IsString(value) /\ Includes(QuantityUnitEnum, value.v)

(***************************************************************************)
(* Coercion helpers of page B: src/unnamed/part_000 lines 85-111.          *)
(***************************************************************************)
validatePriceUnit(value) == IF isPriceUnit(value) THEN value ELSE Str(S_total)

validateQuantityUnit_wrongDefault(value) ==
    IF isQuantityUnit(value) THEN value ELSE Str(S_tons)

validateQuantityUnit(value) == IF isQuantityUnit(value) THEN value ELSE Str(S_kg)

validateYesNo(value) == IF isYesNo(value) THEN value ELSE Str(S_no)

validateCondition(value) == IF isCondition(value) THEN value ELSE Str(S_new)

validateCertification(value) ==
    IF isCertification(value) THEN value ELSE Str(S_empty)

validatePaymentTerms(value) ==
    IF isPaymentTerms(value) THEN value ELSE Str(S_empty)

validateStatus_identity(value) == value

validateStatus(value) == IF isListingStatus(value) THEN value ELSE Str(S_active)

(***************************************************************************)
(* Number <-> text.  A number is held in hundredths, so the model's        *)
(* numbers have at most two fraction digits.                               *)
(***************************************************************************)
Digit(k) ==
    CASE k = 0 -> "0" [] k = 1 -> "1" [] k = 2 -> "2" [] k = 3 -> "3"
      [] k = 4 -> "4" [] k = 5 -> "5" [] k = 6 -> "6" [] k = 7 -> "7"
      [] k = 8 -> "8" [] k = 9 -> "9"

DigitChars == {Digit(k) : k \in 0..9}

DigitVal(c) == CHOOSE k \in 0..9 : Digit(k) = c

RECURSIVE NatToDigits(_)
NatToDigits(n) ==
    IF n < 10 THEN <<Digit(n)>> ELSE NatToDigits(n \div 10) \o <<Digit(n % 10)>>

RECURSIVE DigitsToNat(_)
DigitsToNat(cs) ==
    IF cs = <<>> THEN 0
    ELSE DigitsToNat(SubSeq(cs, 1, Len(cs) - 1)) * 10 + DigitVal(cs[Len(cs)])

\* number of leading decimal digits of cs
RECURSIVE LeadingDigits(_)
LeadingDigits(cs) ==
    IF cs # <<>> /\ cs[1] \in DigitChars THEN 1 + LeadingDigits(Tail(cs)) ELSE 0

RECURSIVE TrimStart(_)
TrimStart(cs) == IF cs # <<>> /\ cs[1] = " " THEN TrimStart(Tail(cs)) ELSE cs

Abs(n) == IF n < 0 THEN -n ELSE n

RECURSIVE Pow10(_)
Pow10(k) == IF k = 0 THEN 1 ELSE 10 * Pow10(k - 1)

\* Number.prototype.toString of a finite number n/100
NumberToString(n) ==
    LET a == Abs(n)
        whole == NatToDigits(a \div 100)
        frac == a % 100
        fracChars == IF frac = 0 THEN <<>>
                     ELSE IF frac % 10 = 0 THEN <<".", Digit(frac \div 10)>>
                     ELSE <<".", Digit(frac \div 10), Digit(frac % 10)>>
    IN  (IF n < 0 THEN <<"-">> ELSE <<>>) \o whole \o fracChars

\* value.toString() of a JS value held by the remote record
toString(x) ==
    CASE x.t = "number" -> Str(NumberToString(x.v))
      [] x.t = "string" -> x
      [] x.t = "nan" -> Str(<<"N", "a", "N">>)

\* parseFloat: the longest prefix of the trimmed text that is a decimal
\* literal (sign, digits, fraction, exponent); NaN when there is none
parseFloat(cs) ==
    LET s1 == TrimStart(cs)
        signed == s1 # <<>> /\ s1[1] \in {"+", "-"}
        neg == s1 # <<>> /\ s1[1] = "-"
        s2 == IF signed THEN Tail(s1) ELSE s1
        k == LeadingDigits(s2)
        s3 == SubSeq(s2, k + 1, Len(s2))
        hasDot == s3 # <<>> /\ s3[1] = "."
        s4 == IF hasDot THEN Tail(s3) ELSE s3
        m == IF hasDot THEN LeadingDigits(s4) ELSE 0
        s5 == SubSeq(s4, m + 1, Len(s4))
        hasE == s5 # <<>> /\ s5[1] \in {"e", "E"}
        s6 == IF hasE THEN Tail(s5) ELSE s5
        eSigned == s6 # <<>> /\ s6[1] \in {"+", "-"}
        eNeg == s6 # <<>> /\ s6[1] = "-"
        s7 == IF eSigned THEN Tail(s6) ELSE s6
        ek == IF hasE THEN LeadingDigits(s7) ELSE 0
        ev == DigitsToNat(SubSeq(s7, 1, ek))
        whole == DigitsToNat(SubSeq(s2, 1, k))
        f2 == SubSeq(s4, 1, IF m < 2 THEN m ELSE 2)
        frac == IF m = 0 THEN 0
                ELSE IF m = 1 THEN 10 * DigitsToNat(f2) ELSE DigitsToNat(f2)
        mant == whole * 100 + frac
        scaled == IF ek = 0 THEN mant
                  ELSE IF eNeg THEN mant \div Pow10(ev) ELSE mant * Pow10(ev)
    IN  IF k = 0 /\ m = 0 THEN NaN
        ELSE Num(IF neg THEN -scaled ELSE scaled)

(***************************************************************************)
(* The email grammar of z.string().email(): the text does not start with   *)
(* a dot and holds no two dots in a row; a local part of letters, digits   *)
(* and _ ' + - . whose last character is a letter, a digit, _ + or -;      *)
(* one @; one or more labels (a letter or digit, then letters, digits or   *)
(* hyphens) each followed by a dot; a last label of two or more letters.   *)
(***************************************************************************)
Letters ==
    {"a", "b", "c", "d", "e", "f", "g", "h", "i", "j", "k", "l", "m", "n",
     "o", "p", "q", "r", "s", "t", "u", "v", "w", "x", "y", "z",
     "A", "B", "C", "D", "E", "F", "G", "H", "I", "J", "K", "L", "M", "N",
     "O", "P", "Q", "R", "S", "T", "U", "V", "W", "X", "Y", "Z"}

AlphaNum == Letters \cup DigitChars

\* index of the first occurrence of c in cs, 0 when there is none
RECURSIVE IndexOf(_, _)
IndexOf(cs, c) ==
    IF cs = <<>> THEN 0
    ELSE IF cs[1] = c THEN 1
    ELSE LET r == IndexOf(Tail(cs), c) IN IF r = 0 THEN 0 ELSE r + 1

HasDoubleDot(cs) == \E i \in 1..(Len(cs) - 1) : cs[i] = "." /\ cs[i + 1] = "."

\* ([A-Z0-9][A-Z0-9\-]*\.)+[A-Z]{2,}
RECURSIVE IsEmailDomain(_, _)
IsEmailDomain(cs, labels) ==
    LET dot == IndexOf(cs, ".")
        label == SubSeq(cs, 1, dot - 1)
    IN  IF dot = 0
        THEN /\ labels >= 1
             /\ Len(cs) >= 2
             /\ \A i \in DOMAIN cs : cs[i] \in Letters
        ELSE /\ label # <<>>
             /\ label[1] \in AlphaNum
             /\ \A i \in DOMAIN label : label[i] \in AlphaNum \cup {"-"}
             /\ IsEmailDomain(SubSeq(cs, dot + 1, Len(cs)), labels + 1)

IsEmail(cs) ==
    LET at == IndexOf(cs, "@")
        local == SubSeq(cs, 1, at - 1)
        domain == SubSeq(cs, at + 1, Len(cs))
    IN  /\ at > 1
        /\ cs[1] # "."
        /\ ~HasDoubleDot(cs)
        /\ \A i \in DOMAIN local : local[i] \in AlphaNum \cup {"_", "'", "+", "-", "."}
        /\ local[Len(local)] \in AlphaNum \cup {"_", "+", "-"}
        /\ IsEmailDomain(domain, 0)

(***************************************************************************)
(* listingSchema: src/src/schemas/listing.ts lines 51-74.                  *)
(***************************************************************************)
RequiredString(msg) == [kind |-> "string_min1", msg |-> msg]
OptionalString == [kind |-> "string_optional"]
NativeEnum(enum, default) == [kind |-> "enum", values |-> enum, default |-> default]
OptionalEmail(msg) == [kind |-> "email_or_empty", msg |-> msg]

listingSchema ==
    [title |-> RequiredString("Title is required"),
     description |-> RequiredString("Description is required"),
     price |-> RequiredString("Price is required"),
     price_unit |-> NativeEnum(PriceUnitEnum, S_total),
     category_id |-> RequiredString("Category is required"),
     location_city |-> RequiredString("City is required"),
     location_province |-> OptionalString,
     location_address |-> OptionalString,
     quantity |-> RequiredString("Quantity is required"),
     quantity_unit |-> NativeEnum(QuantityUnitEnum, S_kg),
     harvest_date |-> OptionalString,
     organic |-> NativeEnum(YesNoEnum, S_no),
     certification |-> NativeEnum(CertificationEnum, S_empty),
     negotiable |-> NativeEnum(YesNoEnum, S_no),
     condition |-> NativeEnum(ConditionEnum, S_new),
     contact_name |-> OptionalString,
     contact_phone |-> OptionalString,
     contact_email |-> OptionalEmail("Invalid email address"),
     delivery_available |-> NativeEnum(YesNoEnum, S_no),
     min_order_quantity |-> OptionalString,
     payment_terms |-> NativeEnum(PaymentTermsEnum, S_empty),
     status |-> NativeEnum(ListingStatusEnum, S_active)]

SchemaFields == DOMAIN listingSchema

\* the fields a Draft of either page can hold
AllFields == SchemaFields \cup {"images", "location_state", "location_country"}

NoIssue == ""

StringMin1Issue_noMin(rule, x) ==
    IF x.t = "undefined" THEN "Required"
    ELSE IF x.t # "string" THEN "Expected string"
    ELSE NoIssue

\* z.string().min(1, msg)
StringMin1Issue(rule, x) ==
    IF x.t = "undefined" THEN "Required"
    ELSE IF x.t # "string" THEN "Expected string"
    ELSE IF Len(x.v) < 1 THEN rule.msg
    ELSE NoIssue

\* z.string().optional()
StringOptionalIssue(x) ==
    IF x.t \in {"undefined", "string"} THEN NoIssue ELSE "Expected string"

\* z.nativeEnum(E).default(d)
NativeEnumIssue(rule, x) ==
    IF x.t = "undefined" THEN NoIssue
    ELSE IF x.t \notin {"string", "number"} THEN "Expected enum value"
    ELSE IF x.t = "string" /\ Includes(rule.values, x.v) THEN NoIssue
    ELSE "Invalid enum value"

EmailOrEmptyIssue_noEmpty(rule, x) ==
    IF x.t = "undefined" THEN NoIssue
    ELSE IF x.t # "string" THEN "Invalid input"
    ELSE IF IsEmail(x.v) THEN NoIssue
    ELSE rule.msg

\* z.string().email(msg).optional().or(z.literal(''))
EmailOrEmptyIssue(rule, x) ==
    IF x.t = "undefined" THEN NoIssue
    ELSE IF x.t # "string" THEN "Invalid input"
    ELSE IF IsEmail(x.v) THEN NoIssue
    ELSE IF x.v = S_empty THEN NoIssue
    ELSE rule.msg

FieldIssue(f, x) ==
    LET rule == listingSchema[f]
    IN  CASE rule.kind = "string_min1" -> StringMin1Issue(rule, x)
          [] rule.kind = "string_optional" -> StringOptionalIssue(x)
          [] rule.kind = "enum" -> NativeEnumIssue(rule, x)
          [] rule.kind = "email_or_empty" -> EmailOrEmptyIssue(rule, x)

FieldOutput_noDefault(f, x) == x

\* the parsed value of one field: a default replaces an absent enum value
FieldOutput(f, x) ==
    LET rule == listingSchema[f]
    IN  IF rule.kind = "enum" /\ x.t = "undefined" THEN Str(rule.default) ELSE x

SchemaErrors_none(d) == [f \in {} |-> NoIssue]

\* the issues of listingSchema.safeParse(d): invalid field -> message
SchemaErrors(d) ==
    [f \in {g \in SchemaFields : FieldIssue(g, d[g]) # NoIssue} |->
        FieldIssue(f, d[f])]

\* the output of a successful parse: unknown keys are stripped
SchemaData(d) == [f \in SchemaFields |-> FieldOutput(f, d[f])]

NoErrors == [f \in {} |-> NoIssue]

(***************************************************************************)
(* Remote listing records (src/src/types/supabase.ts, listings.Row) and    *)
(* the files a user may pick.                                              *)
(***************************************************************************)
NoUser == "none"
NoRecord == [absent |-> TRUE]

\* a field of a remote record; a key the record lacks reads as undefined
Get(r, f) == IF f \in DOMAIN r THEN r[f] ELSE Undefined

ValidRecord ==
    [title |-> Str(S_abc), description |-> Str(S_abc),
     price |-> Num(1250), price_unit |-> Str(S_per_kg),
     quantity |-> Num(300), quantity_unit |-> Str(S_ton),
     category_id |-> Str(S_c1), location_city |-> Str(S_abc),
     location_province |-> Str(S_abc), location_address |-> Null,
     contact_name |-> Null, contact_phone |-> Null,
     contact_email |-> Str(S_a_at_b_com),
     organic |-> Str(S_yes), condition |-> Str(S_good),
     certification |-> Str(S_organic), payment_terms |-> Str(S_advance),
     status |-> Str(S_sold), images |-> Arr(<<1, 2>>), user_id |-> "u1"]

\* the scenario record {status: "SOLD_OUT", price: null, images: null}
ScenarioRecord ==
    [ValidRecord EXCEPT !["status"] = Str(S_SOLD_OUT), !["price"] = Null,
                        !["images"] = Null]

NullableRecord ==
    [ValidRecord EXCEPT !["description"] = Null, !["location_city"] = Null,
                        !["quantity"] = Null, !["price_unit"] = Null,
                        !["organic"] = Null, !["condition"] = Null,
                        !["certification"] = Null, !["payment_terms"] = Null,
                        !["status"] = Null, !["quantity_unit"] = Null]

EnumFields ==
    {"price_unit", "quantity_unit", "organic", "condition", "certification",
     "payment_terms", "status"}

\* values a weakly typed remote enum field may hold
RemoteEnumValues ==
    {Str(S_yes), Str(S_no), Str(S_good), Str(S_empty), Str(S_gap),
     Str(S_credit), Str(S_expired), Str(S_per_piece), Str(S_quintal),
     Str(S_SOLD_OUT), Str(S_Active), Str(S_YES), Str(S_per_acre),
     Str(S_tons), Null, Undefined, Num(100), Bool(TRUE), Obj}

RemoteNumbers == {Null, Num(0), Num(300), Num(1250), Num(5), Num(100000), Num(-250)}

RemoteImages ==
    {Null, Arr(<<>>), Arr(<<1, 2>>), Arr(<<1, 2, 3, 4, 5>>)}

\* records for the load path: one enum field, the numbers or the images vary
LoadRecords ==
    {[ValidRecord EXCEPT ![f] = v] : f \in EnumFields, v \in RemoteEnumValues}
    \cup {[ValidRecord EXCEPT !["price"] = p, !["quantity"] = q] :
            p \in RemoteNumbers, q \in RemoteNumbers}
    \cup {[ValidRecord EXCEPT !["images"] = i, !["user_id"] = u] :
            i \in RemoteImages, u \in {"u1", "u2"}}
    \cup {ScenarioRecord, NullableRecord, NoRecord}

\* records for an edit session
SessionRecords == {ValidRecord, ScenarioRecord}

\* records for the image handlers
ImageRecords == {[ValidRecord EXCEPT !["images"] = i] : i \in RemoteImages}

MAX_FILE_SIZE == 5 * 1024 * 1024

A_ACCEPTED_IMAGE_TYPES == <<"image/jpeg", "image/jpg", "image/png", "image/webp">>

B_ACCEPTED_IMAGE_TYPES == <<"image/jpeg", "image/png", "image/webp">>

Files ==
    {[type |-> "image/jpeg", size |-> 1024],
     [type |-> "image/jpg", size |-> 1024],
     [type |-> "image/gif", size |-> 1024],
     [type |-> "image/webp", size |-> MAX_FILE_SIZE],
     [type |-> "image/png", size |-> MAX_FILE_SIZE + 1]}

NoFile == [type |-> "", size |-> 0]

\* the URL the object store returns for the upload call with this id
UploadedUrl(id) == 100 + id

(***************************************************************************)
(* Draft construction.                                                     *)
(***************************************************************************)
\* a Draft holding the given fields; every other field is undefined
MkDraft(given) ==
    [f \in AllFields |-> IF f \in DOMAIN given THEN given[f] ELSE Undefined]

\* page A, useForm defaultValues: src/src/pages/EditListing.tsx lines 143-160
A_defaultValues ==
    MkDraft([title |-> Str(S_empty), description |-> Str(S_empty),
             price |-> Str(S_0), quantity |-> Str(S_0),
             category_id |-> Str(S_empty), location_city |-> Str(S_empty),
             location_province |-> Str(S_empty),
             location_address |-> Str(S_empty),
             contact_name |-> Str(S_empty), contact_phone |-> Str(S_empty),
             contact_email |-> Str(S_empty), status |-> Str(S_active),
             images |-> Arr(<<>>)])

\* page B, useForm without defaultValues: src/unnamed/part_000 lines 122-131
B_defaultValues == MkDraft(<<>>)

IsNullish(x) == x.t \in {"null", "undefined"}

\* x?.toString()
OptToString(x) == IF IsNullish(x) THEN Undefined ELSE toString(x)

\* Page A names validateStatus at line 180, but EditListing.tsx neither
\* declares nor imports it (imports: lines 1-24): evaluating the call throws
\* a ReferenceError.
A_validateStatusInScope == FALSE

\* page A: does building the argument of form.reset throw?
\* listing.price.toString() and listing.quantity.toString() throw on null.
A_ResetThrows(l) ==
    \/ IsNullish(Get(l, "price"))
    \/ IsNullish(Get(l, "quantity"))
    \/ ~A_validateStatusInScope

\* page A: the argument of form.reset, lines 168-182
A_ResetValues(l) ==
    MkDraft([title |-> Get(l, "title"),
             description |-> Get(l, "description"),
             price |-> toString(Get(l, "price")),
             quantity |-> toString(Get(l, "quantity")),
             category_id |-> Get(l, "category_id"),
             location_city |-> Get(l, "location_city"),
             location_province |-> Get(l, "location_province"),
             location_address |-> OrElse(Get(l, "location_address"), Str(S_empty)),
             contact_name |-> OrElse(Get(l, "contact_name"), Str(S_empty)),
             contact_phone |-> OrElse(Get(l, "contact_phone"), Str(S_empty)),
             contact_email |-> OrElse(Get(l, "contact_email"), Str(S_empty)),
             status |-> validateStatus(Get(l, "status")),
             images |-> OrElse(Get(l, "images"), Arr(<<>>))])

B_ResetValues_noGuard(l) ==
    MkDraft([title |-> OrElse(Get(l, "title"), Str(S_empty)),
             description |-> OrElse(Get(l, "description"), Str(S_empty)),
             price |-> OrElse(OptToString(Get(l, "price")), Str(S_empty)),
             price_unit |-> OrElse(Get(l, "price_unit"), Str(S_total)),
             quantity |-> OrElse(OptToString(Get(l, "quantity")), Str(S_empty)),
             quantity_unit |-> OrElse(Get(l, "quantity_unit"), Str(S_kg)),
             category_id |-> Get(l, "category_id"),
             location_city |-> OrElse(Get(l, "location_city"), Str(S_empty)),
             location_state |-> OrElse(Get(l, "location_state"), Str(S_empty)),
             location_country |-> OrElse(Get(l, "location_country"), Str(S_empty)),
             organic |-> OrElse(Get(l, "organic"), Str(S_no)),
             condition |-> OrElse(Get(l, "condition"), Str(S_new)),
             certification |-> OrElse(Get(l, "certification"), Str(S_empty)),
             payment_terms |-> OrElse(Get(l, "payment_terms"), Str(S_empty)),
             status |-> OrElse(Get(l, "status"), Str(S_active))])

\* page B: the argument of reset, src/unnamed/part_000 lines 160-176
B_ResetValues(l) ==
    MkDraft([title |-> OrElse(Get(l, "title"), Str(S_empty)),
             description |-> OrElse(Get(l, "description"), Str(S_empty)),
             price |-> OrElse(OptToString(Get(l, "price")), Str(S_empty)),
             price_unit |-> validatePriceUnit(Get(l, "price_unit")),
             quantity |-> OrElse(OptToString(Get(l, "quantity")), Str(S_empty)),
             quantity_unit |-> validateQuantityUnit(Get(l, "quantity_unit")),
             category_id |-> Get(l, "category_id"),
             location_city |-> OrElse(Get(l, "location_city"), Str(S_empty)),
             location_state |-> OrElse(Get(l, "location_state"), Str(S_empty)),
             location_country |-> OrElse(Get(l, "location_country"), Str(S_empty)),
             organic |-> validateYesNo(Get(l, "organic")),
             condition |-> validateCondition(Get(l, "condition")),
             certification |-> validateCertification(Get(l, "certification")),
             payment_terms |-> validatePaymentTerms(Get(l, "payment_terms")),
             status |-> validateStatus(Get(l, "status"))])

\* page B: the images state after the effect, lines 178-180
B_ResetImages(l, prev) ==
    IF Truthy(Get(l, "images")) THEN Get(l, "images").v ELSE prev

(***************************************************************************)
(* The listing query.                                                      *)
(***************************************************************************)
Pending == [status |-> "pending", data |-> NoRecord]
QueryError == [status |-> "error", data |-> NoRecord]
Success(r) == [status |-> "success", data |-> r]

\* useQuery enabled: A `!!id && !!user` (line 139), B `!!id` (line 155)
QueryEnabled == IF page = "A" THEN user # NoUser ELSE TRUE

\* queryFn: A lines 107-138 (with the ownership check), B lines 140-154
QueryFn(networkOk) ==
    IF ~networkOk \/ remote = NoRecord THEN QueryError
    ELSE IF page = "A" /\ remote.user_id # user THEN QueryError
    ELSE Success(remote)

\* the edit form is on screen: A lines 329-394, B lines 248-272
FormRendered ==
    /\ nav = ""
    /\ listing.status = "success"
    /\ page = "A" => user # NoUser

\* the image list of the Draft: a form field on page A, its own state on B
DraftImages ==
    IF page = "A"
    THEN (IF draft["images"].t = "array" THEN draft["images"].v ELSE <<>>)
    ELSE images

NoStep == [op |-> "none", toast |-> "", url |-> 0, before |-> <<>>,
           errors |-> NoErrors, file |-> NoFile]
Step(op, toast) == [NoStep EXCEPT !.op = op, !.toast = toast]
ImageStep(op, toast, url, before) ==
    [NoStep EXCEPT !.op = op, !.toast = toast, !.url = url, !.before = before]
FileStep(op, toast, file) ==
    [ImageStep(op, toast, 0, DraftImages) EXCEPT !.file = file]
\* no storage call was made yet
NoCalls == [upload |-> 0, delete |-> 0, added |-> {}, removed |-> {},
            overlapped |-> FALSE]
NoFn == [name |-> "", arg |-> Undefined, res |-> FALSE, done |-> FALSE]

(***************************************************************************)
(* Initial states: the page is mounted and the listing query is pending.   *)
(***************************************************************************)
InitWith(records, users) ==
    /\ page \in {"A", "B"}
    /\ user \in users
    /\ remote \in records
    /\ listing = Pending
    /\ resetState = "none"
    /\ draft = (IF page = "A" THEN A_defaultValues ELSE B_defaultValues)
    /\ images = <<>>
    /\ isUploading = FALSE
    /\ isSubmitting = FALSE
    /\ uploads = {}
    /\ deletes = {}
    /\ updates = {}
    /\ calls = NoCalls
    /\ nav = ""
    /\ last = NoStep
    /\ fn = NoFn

(***************************************************************************)
(* Authentication effect of page A: EditListing.tsx lines 93-103.          *)
(***************************************************************************)
AuthRedirect ==
    /\ page = "A"
    /\ user = NoUser
    /\ nav = ""
    /\ nav' = "/auth"
    /\ last' = Step("auth_redirect", "Please log in to edit listings")
    /\ UNCHANGED <<page, user, remote, listing, resetState, draft,
                   images, isUploading, isSubmitting, uploads, deletes,
                   updates, calls, fn>>

(***************************************************************************)
(* The listing query resolves and, on success, the reset effect runs:      *)
(* A lines 105-141 and 163-192, B lines 138-156 and 158-182.               *)
(***************************************************************************)
FetchResolve ==
    /\ listing = Pending
    /\ QueryEnabled
    /\ \E networkOk \in BOOLEAN :
        LET q == QueryFn(networkOk)
            l == q.data
        IN  /\ listing' = q
            /\ IF q.status # "success"
               THEN /\ last' = Step("fetch_error", "")
                    /\ UNCHANGED <<resetState, draft, images>>
               ELSE IF page = "A"
               THEN IF A_ResetThrows(l)
                    THEN /\ resetState' = "threw"
                         /\ last' = Step("reset", "Failed to load listing data into form")
                         /\ UNCHANGED <<draft, images>>
                    ELSE /\ resetState' = "ok"
                         /\ draft' = A_ResetValues(l)
                         /\ last' = Step("reset", "")
                         /\ UNCHANGED images
               ELSE /\ resetState' = "ok"
                    /\ draft' = B_ResetValues(l)
                    /\ images' = B_ResetImages(l, images)
                    /\ last' = Step("reset", "")
    /\ UNCHANGED <<page, user, remote, isUploading, isSubmitting, uploads,
                   deletes, updates, calls, nav, fn>>

(***************************************************************************)
(* User edits.  In the model the user edits only while no update is in     *)
(* flight.                                                                 *)
(***************************************************************************)
\* inputs bound with register(): A lines 454-623, B lines 289-423
TextInputs ==
    IF page = "A"
    THEN {"title", "description", "price", "quantity", "location_city",
          "location_province", "location_address", "contact_name",
          "contact_phone", "contact_email"}
    ELSE {"title", "description", "price", "quantity", "location_city",
          "location_state", "location_country"}

EditText(f, cs) ==
    /\ FormRendered
    /\ updates = {}
    /\ f \in TextInputs
    /\ draft[f] # Str(cs)
    /\ draft' = [draft EXCEPT ![f] = Str(cs)]
    /\ last' = Step("edit", "")
    /\ UNCHANGED <<page, user, remote, listing, resetState, images,
                   isUploading, isSubmitting, uploads, deletes, updates,
                   calls, nav, fn>>

\* category Select: A lines 483-489, B lines 373-376
SelectCategory(id) ==
    /\ FormRendered
    /\ updates = {}
    /\ draft["category_id"] # Str(id)
    /\ draft' = [draft EXCEPT !["category_id"] = Str(id)]
    /\ last' = Step("edit", "")
    /\ UNCHANGED <<page, user, remote, listing, resetState, images,
                   isUploading, isSubmitting, uploads, deletes, updates,
                   calls, nav, fn>>

\* the enum Selects of page B and the registry each offers: lines 324-475
B_SelectOptions(f) ==
    CASE f = "price_unit" -> PriceUnitEnum
      [] f = "quantity_unit" -> QuantityUnitEnum
      [] f = "condition" -> ConditionEnum
      [] f = "certification" -> CertificationEnum
      [] f = "payment_terms" -> PaymentTermsEnum

B_SelectFields == {"price_unit", "quantity_unit", "condition", "certification",
                   "payment_terms"}

\* onValueChange: setValue(field, validateX(value))
B_OnValueChange(f, value) ==
    CASE f = "price_unit" -> validatePriceUnit(value)
      [] f = "quantity_unit" -> validateQuantityUnit(value)
      [] f = "condition" -> validateCondition(value)
      [] f = "certification" -> validateCertification(value)
      [] f = "payment_terms" -> validatePaymentTerms(value)

\* the bound on Select and Checkbox edits: at most MaxEdits enum fields of
\* the Draft differ from the values the listing was loaded with
WithinEditBound(d) ==
    LET loaded == B_ResetValues(listing.data)
    IN  Cardinality({f \in EnumFields : d[f] # loaded[f]}) <= MaxEdits

SelectEnum(f, i) ==
    /\ page = "B"
    /\ FormRendered
    /\ updates = {}
    /\ i \in DOMAIN B_SelectOptions(f)
    /\ LET picked == B_OnValueChange(f, Str(B_SelectOptions(f)[i]))
       IN  /\ draft[f] # picked
           /\ WithinEditBound([draft EXCEPT ![f] = picked])
           /\ draft' = [draft EXCEPT ![f] = picked]
    /\ last' = Step("edit", "")
    /\ UNCHANGED <<page, user, remote, listing, resetState, images,
                   isUploading, isSubmitting, uploads, deletes, updates,
                   calls, nav, fn>>

\* organic Checkbox of page B: lines 477-483
ToggleOrganic(checked) ==
    /\ page = "B"
    /\ FormRendered
    /\ updates = {}
    /\ LET picked == IF checked THEN Str(S_yes) ELSE Str(S_no)
       IN  /\ draft["organic"] # picked
           /\ WithinEditBound([draft EXCEPT !["organic"] = picked])
           /\ draft' = [draft EXCEPT !["organic"] = picked]
    /\ last' = Step("edit", "")
    /\ UNCHANGED <<page, user, remote, listing, resetState, images,
                   isUploading, isSubmitting, uploads, deletes, updates,
                   calls, nav, fn>>

(***************************************************************************)
(* Submission: handleSubmit(onSubmit) runs the zod resolver and calls      *)
(* onSubmit with the parsed data only when there is no error.              *)
(***************************************************************************)
PayloadFields == SchemaFields \cup {"images", "updated_at"}

\* an update payload holding the given keys; every other key is undefined
MkPayload(given) ==
    [f \in PayloadFields |-> IF f \in DOMAIN given THEN given[f] ELSE Undefined]

S_now == <<"n", "o", "w">>

A_listingData_keepEmpty(data) ==
    MkPayload([title |-> data["title"],
               description |-> data["description"],
               price |-> parseFloat(toString(data["price"]).v),
               quantity |-> parseFloat(toString(data["quantity"]).v),
               category_id |-> data["category_id"],
               location_city |-> data["location_city"],
               location_province |-> data["location_province"],
               location_address |-> data["location_address"],
               contact_name |-> data["contact_name"],
               contact_phone |-> data["contact_phone"],
               contact_email |-> data["contact_email"],
               status |-> data["status"],
               images |-> Get(data, "images")])

\* page A, listingData: EditListing.tsx lines 290-304
A_listingData(data) ==
    MkPayload([title |-> data["title"],
               description |-> data["description"],
               price |-> parseFloat(toString(data["price"]).v),
               quantity |-> parseFloat(toString(data["quantity"]).v),
               category_id |-> data["category_id"],
               location_city |-> data["location_city"],
               location_province |-> data["location_province"],
               location_address |-> OrElse(data["location_address"], Null),
               contact_name |-> OrElse(data["contact_name"], Null),
               contact_phone |-> OrElse(data["contact_phone"], Null),
               contact_email |-> OrElse(data["contact_email"], Null),
               status |-> data["status"],
               images |-> Get(data, "images")])

\* page B, the data of mutateAsync: part_000 lines 225-229
B_updateData(data, imgs) ==
    [f \in PayloadFields |->
        IF f = "images" THEN Arr(imgs)
        ELSE IF f = "updated_at" THEN Str(S_now)
        ELSE data[f]]

\* the submit button: A line 645 disabled={isSubmitting},
\* B line 534 disabled={isUploading}
SubmitEnabled == IF page = "A" THEN ~isSubmitting ELSE ~isUploading

\* the id the model gives a new update call: the least one not in flight
FreeUpdateId == CHOOSE i \in 1..MaxSubmits :
                    /\ \A u \in updates : u.id # i
                    /\ \A j \in 1..(i - 1) : \E u \in updates : u.id = j

onSubmitReturns_never == FALSE

\* the early return of onSubmit: A `if (!listing)` lines 278-285,
\* B `if (!id || !user) return` line 220
onSubmitReturns ==
    IF page = "A" THEN listing.status # "success" ELSE user = NoUser

\* A onSubmit lines 277-327, B onSubmit lines 219-246, up to the remote call
Submit ==
    /\ FormRendered
    /\ SubmitEnabled
    /\ Cardinality(updates) < MaxSubmits
    /\ LET errs == SchemaErrors(draft)
           data == SchemaData(draft)
       IN  IF DOMAIN errs # {}
           THEN /\ last' = [Step("submit_invalid", "") EXCEPT !.errors = errs]
                /\ UNCHANGED <<isSubmitting, updates>>
           ELSE IF onSubmitReturns
           THEN /\ last' = Step("submit_returned",
                                IF page = "A" THEN "Listing not found" ELSE "")
                /\ UNCHANGED <<isSubmitting, updates>>
           ELSE IF page = "A"
           THEN /\ isSubmitting' = TRUE
                /\ updates' = updates \cup
                       {[id |-> FreeUpdateId, data |-> A_listingData(data)]}
                /\ last' = Step("submit", "")
           ELSE /\ updates' = updates \cup
                       {[id |-> FreeUpdateId, data |-> B_updateData(data, images)]}
                /\ last' = Step("submit", "")
                /\ UNCHANGED isSubmitting
    /\ UNCHANGED <<page, user, remote, listing, resetState, draft, images,
                   isUploading, uploads, deletes, calls, nav, fn>>

\* the row after an acknowledged update: the columns the payload defines
\* are written, every other column is kept
Persisted(row, data) ==
    [f \in DOMAIN row |->
        IF f \in DOMAIN data /\ data[f] # Undefined THEN data[f] ELSE row[f]]

UpdateResolve_resetsDraft(u, ok) ==
    /\ u \in updates
    /\ updates' = updates \ {u}
    /\ IF ok
       THEN /\ last' = Step("update_ok", "Listing updated successfully")
            /\ nav' = "/listings"
            /\ remote' = Persisted(remote, u.data)
            /\ UNCHANGED draft
       ELSE /\ last' = Step("update_failed", "Failed to update listing")
            /\ draft' = (IF page = "A" THEN A_defaultValues ELSE B_defaultValues)
            /\ UNCHANGED <<nav, remote>>
    /\ isSubmitting' = (IF page = "A" THEN FALSE ELSE isSubmitting)
    /\ UNCHANGED <<page, user, listing, resetState,
                   images, isUploading, uploads, deletes, calls, fn>>

UpdateResolve_alwaysNavigates(u, ok) ==
    /\ u \in updates
    /\ updates' = updates \ {u}
    /\ nav' = "/listings"
    /\ IF ok
       THEN /\ last' = Step("update_ok", "Listing updated successfully")
            /\ remote' = Persisted(remote, u.data)
       ELSE /\ last' = Step("update_failed", "Failed to update listing")
            /\ UNCHANGED remote
    /\ isSubmitting' = (IF page = "A" THEN FALSE ELSE isSubmitting)
    /\ UNCHANGED <<page, user, listing, resetState, draft,
                   images, isUploading, uploads, deletes, calls, fn>>

UpdateResolve_noFinally(u, ok) ==
    /\ u \in updates
    /\ updates' = updates \ {u}
    /\ IF ok
       THEN /\ last' = Step("update_ok", "Listing updated successfully")
            /\ nav' = "/listings"
            /\ remote' = Persisted(remote, u.data)
       ELSE /\ last' = Step("update_failed", "Failed to update listing")
            /\ UNCHANGED <<nav, remote>>
    /\ isSubmitting' = (IF page = "A" /\ ok THEN FALSE ELSE isSubmitting)
    /\ UNCHANGED <<page, user, listing, resetState, draft,
                   images, isUploading, uploads, deletes, calls, fn>>

\* the remote update resolves: A lines 306-326, B lines 223-245
UpdateResolve(u, ok) ==
    /\ u \in updates
    /\ updates' = updates \ {u}
    /\ IF ok
       THEN /\ last' = Step("update_ok", "Listing updated successfully")
            /\ nav' = "/listings"
            /\ remote' = Persisted(remote, u.data)
       ELSE /\ last' = Step("update_failed", "Failed to update listing")
            /\ UNCHANGED <<nav, remote>>
    /\ isSubmitting' = (IF page = "A" THEN FALSE ELSE isSubmitting)
    /\ UNCHANGED <<page, user, listing, resetState, draft,
                   images, isUploading, uploads, deletes, calls, fn>>

\* the Cancel button: A lines 636-642, B lines 526-533
Cancel ==
    /\ FormRendered
    /\ nav' = "/listings"
    /\ last' = Step("cancel", "")
    /\ UNCHANGED <<page, user, remote, listing, resetState, draft, images,
                   isUploading, isSubmitting, uploads, deletes, updates,
                   calls, fn>>

(***************************************************************************)
(* Image upload and delete.                                                *)
(***************************************************************************)
\* the upload control: A lines 423-445 (rendered while fewer than 5 images),
\* B lines 516-521 (button disabled while uploading)
UploadControlEnabled ==
    IF page = "A" THEN Len(DraftImages) < 5 ELSE ~isUploading

FileRejection_noSize(file) ==
    IF page = "A"
    THEN IF ~Includes(A_ACCEPTED_IMAGE_TYPES, file.type) THEN "Invalid file type"
         ELSE ""
    ELSE IF ~Includes(B_ACCEPTED_IMAGE_TYPES, file.type) THEN "File type not supported"
         ELSE ""

\* client-side file checks: A handleImageUpload lines 224-244,
\* B ImageUpload.handleFileChange (ImageUpload.tsx lines 24-39)
FileRejection(file) ==
    IF page = "A"
    THEN IF ~Includes(A_ACCEPTED_IMAGE_TYPES, file.type) THEN "Invalid file type"
         ELSE IF ~(file.size <= MAX_FILE_SIZE) THEN "File too large"
         ELSE ""
    ELSE IF file.size > MAX_FILE_SIZE THEN "File size should not exceed 5MB"
         ELSE IF ~Includes(B_ACCEPTED_IMAGE_TYPES, file.type) THEN "File type not supported"
         ELSE ""

\* handleImageUpload up to the storage call: A lines 221-247, B lines 184-189
UploadPick(file) ==
    /\ FormRendered
    /\ UploadControlEnabled
    /\ calls.upload < MaxUploads
    /\ IF FileRejection(file) # ""
       THEN /\ last' = FileStep("upload_rejected", FileRejection(file), file)
            /\ UNCHANGED <<uploads, calls, isUploading>>
       ELSE IF user = NoUser
       THEN /\ last' = FileStep("upload_returned", "", file)
            /\ UNCHANGED <<uploads, calls, isUploading>>
       ELSE /\ uploads' = uploads \cup {calls.upload + 1}
            /\ calls' = [calls EXCEPT !.upload = @ + 1]
            /\ isUploading' = (IF page = "B" THEN TRUE ELSE isUploading)
            /\ last' = FileStep("upload_call", "", file)
    /\ UNCHANGED <<page, user, remote, listing, resetState, draft,
                   images, isSubmitting, deletes, updates, nav, fn>>

AppendImage_overwrite(list, url) == <<url>>

AppendImage_prepend(list, url) == <<url>> \o list

\* [...list, url]
AppendImage(list, url) == Append(list, url)

\* the history the model keeps of the storage calls: the URLs uploaded and
\* deleted with success, and whether a call resolved while another was pending
Resolved(addedUrls, removedUrls, othersPending) ==
    [calls EXCEPT !.added = @ \cup addedUrls,
                  !.removed = @ \cup removedUrls,
                  !.overlapped = @ \/ othersPending]

\* the storage upload resolves: A lines 247-259, B lines 189-202
UploadResolve(id, outcome) ==
    /\ id \in uploads
    /\ uploads' = uploads \ {id}
    /\ isUploading' = (IF page = "B" THEN FALSE ELSE isUploading)
    /\ IF outcome = "url"
       THEN /\ IF page = "A"
               THEN /\ draft' = [draft EXCEPT !["images"] =
                                    Arr(AppendImage(DraftImages, UploadedUrl(id)))]
                    /\ UNCHANGED images
               ELSE /\ images' = AppendImage(images, UploadedUrl(id))
                    /\ UNCHANGED draft
            /\ calls' = Resolved({UploadedUrl(id)}, {},
                                  uploads # {id} \/ deletes # {})
            /\ last' = ImageStep("upload_ok", "", UploadedUrl(id), DraftImages)
       ELSE /\ calls' = Resolved({}, {}, uploads # {id} \/ deletes # {})
            /\ last' = ImageStep("upload_" \o outcome,
                                 IF outcome = "threw" THEN "Failed to upload image"
                                 ELSE "", 0, DraftImages)
            /\ UNCHANGED <<draft, images>>
    /\ UNCHANGED <<page, user, remote, listing, resetState,
                   isSubmitting, deletes, updates, nav, fn>>

RemoveImage_dropLast(list, url) ==
    IF list = <<>> THEN list ELSE SubSeq(list, 1, Len(list) - 1)

\* list.filter(img => img !== url)
RemoveImage(list, url) == SelectSeq(list, LAMBDA img : img # url)

\* handleImageDelete up to the storage call: A lines 262-264, B lines 205-207
DeleteClick(url) ==
    /\ FormRendered
    /\ calls.delete < MaxDeletes
    /\ Includes(DraftImages, url)
    /\ deletes' = deletes \cup {[id |-> calls.delete + 1, url |-> url]}
    /\ calls' = [calls EXCEPT !.delete = @ + 1]
    /\ last' = ImageStep("delete_call", "", url, DraftImages)
    /\ UNCHANGED <<page, user, remote, listing, resetState, draft,
                   images, isUploading, isSubmitting, uploads, updates, nav,
                   fn>>

\* the storage delete resolves: A lines 264-274, B lines 207-216
DeleteResolve(d, ok) ==
    /\ d \in deletes
    /\ deletes' = deletes \ {d}
    /\ IF ok
       THEN /\ IF page = "A"
               THEN /\ draft' = [draft EXCEPT !["images"] =
                                    Arr(RemoveImage(DraftImages, d.url))]
                    /\ UNCHANGED images
               ELSE /\ images' = RemoveImage(images, d.url)
                    /\ UNCHANGED draft
            /\ calls' = Resolved({}, {d.url}, uploads # {} \/ deletes # {d})
            /\ last' = ImageStep("delete_ok", "", d.url, DraftImages)
       ELSE /\ calls' = Resolved({}, {}, uploads # {} \/ deletes # {d})
            /\ last' = ImageStep("delete_failed", "Failed to delete image",
                                 d.url, DraftImages)
            /\ UNCHANGED <<draft, images>>
    /\ UNCHANGED <<page, user, remote, listing, resetState,
                   isUploading, isSubmitting, uploads, updates, nav, fn>>

(***************************************************************************)
(* Specifications.                                                         *)
(***************************************************************************)
\* the texts the user of an edit session types into a field
TypedTexts(f) ==
    CASE f = "title" -> {S_empty, S_abc}
      [] f = "description" -> {S_abc}
      [] f = "location_city" -> {S_abc}
      [] f = "price" -> {S_abc, S_12_5}
      [] f = "quantity" -> {S_3}
      [] f = "contact_email" -> {S_empty, S_not_an_email}
      [] OTHER -> {}

CategoryIds == {S_c1}

\* an edit session: load, edits, submit
Init == InitWith(SessionRecords, {"u1"})

Next ==
    \/ FetchResolve
    \/ \E f \in AllFields : \E cs \in TypedTexts(f) : EditText(f, cs)
    \/ \E id \in CategoryIds : SelectCategory(id)
    \/ \E f \in B_SelectFields : \E i \in 1..5 : SelectEnum(f, i)
    \/ \E checked \in BOOLEAN : ToggleOrganic(checked)
    \/ Submit
    \/ \E u \in updates : \E ok \in BOOLEAN : UpdateResolve(u, ok)

Spec == Init /\ [][Next]_vars

\* the load path over many remote records: load, then submit unedited
InitLoad == InitWith(LoadRecords, {"u1", NoUser})

NextLoad ==
    \/ AuthRedirect
    \/ FetchResolve
    \/ Submit
    \/ \E u \in updates : \E ok \in BOOLEAN : UpdateResolve(u, ok)

SpecLoad == InitLoad /\ [][NextLoad]_vars

\* the image handlers
InitImages == InitWith(ImageRecords, {"u1"})

NextImages ==
    \/ FetchResolve
    \/ \E file \in Files : UploadPick(file)
    \/ \E id \in uploads : \E outcome \in {"url", "empty", "threw"} :
           UploadResolve(id, outcome)
    \/ \E url \in Range(DraftImages) : DeleteClick(url)
    \/ \E d \in deletes : \E ok \in BOOLEAN : DeleteResolve(d, ok)

SpecImages == InitImages /\ [][NextImages]_vars

(***************************************************************************)
(* The type guards applied to arbitrary values.                            *)
(***************************************************************************)
GuardNames == {"isYesNo", "isCertification", "isCondition", "isPaymentTerms",
               "isListingStatus", "isPriceUnit", "isQuantityUnit"}

Guard(name, value) ==
    CASE name = "isYesNo" -> isYesNo(value)
      [] name = "isCertification" -> isCertification(value)
      [] name = "isCondition" -> isCondition(value)
      [] name = "isPaymentTerms" -> isPaymentTerms(value)
      [] name = "isListingStatus" -> isListingStatus(value)
      [] name = "isPriceUnit" -> isPriceUnit(value)
      [] name = "isQuantityUnit" -> isQuantityUnit(value)

RegistryStrings ==
    Range(YesNoEnum) \cup Range(ConditionEnum) \cup Range(CertificationEnum)
    \cup Range(PaymentTermsEnum) \cup Range(ListingStatusEnum)
    \cup Range(PriceUnitEnum) \cup Range(QuantityUnitEnum)

GuardInputs ==
    {Str(cs) : cs \in RegistryStrings}
    \cup {Str(S_SOLD_OUT), Str(S_Active), Str(S_YES), Str(S_per_acre),
          Str(S_tons), Str(S_space), Str(S_abc), Str(S_0)}
    \cup {Null, Undefined, NaN, Obj, Num(0), Num(100), Bool(TRUE), Bool(FALSE),
          Arr(<<>>)}

\* page state of a specification that only applies a pure function
Unmounted ==
    /\ page = "B"
    /\ user = NoUser
    /\ remote = NoRecord
    /\ listing = Pending
    /\ resetState = "none"
    /\ images = <<>>
    /\ isUploading = FALSE
    /\ isSubmitting = FALSE
    /\ uploads = {}
    /\ deletes = {}
    /\ updates = {}
    /\ calls = NoCalls
    /\ nav = ""
    /\ last = NoStep

InitGuards ==
    /\ Unmounted
    /\ draft = B_defaultValues
    /\ \E name \in GuardNames : \E value \in GuardInputs :
           fn = [name |-> name, arg |-> value, res |-> FALSE, done |-> FALSE]

ApplyGuard ==
    /\ fn.name \in GuardNames
    /\ ~fn.done
    /\ fn' = [fn EXCEPT !.res = Guard(fn.name, fn.arg), !.done = TRUE]
    /\ UNCHANGED <<page, user, remote, listing, resetState, draft, images,
                   isUploading, isSubmitting, uploads, deletes, updates,
                   calls, nav, last>>

NextGuards == ApplyGuard

SpecGuards == InitGuards /\ [][NextGuards]_vars

(***************************************************************************)
(* listingSchema applied to candidate Drafts: a Draft that passes, with    *)
(* up to two of its fields replaced.                                       *)
(***************************************************************************)
A_ValidDraft ==
    [A_defaultValues EXCEPT !["title"] = Str(S_abc),
                            !["description"] = Str(S_abc),
                            !["price"] = Str(S_12_5),
                            !["quantity"] = Str(S_3),
                            !["category_id"] = Str(S_c1),
                            !["location_city"] = Str(S_abc)]

B_ValidDraft == B_ResetValues(ValidRecord)

\* values a Draft field may hold when it reaches the resolver
FieldSamples(f) ==
    LET rule == listingSchema[f]
    IN  CASE rule.kind = "string_min1" ->
               {Undefined, Str(S_empty), Str(S_space), Str(S_abc), Str(S_3)}
          [] rule.kind = "string_optional" ->
               {Undefined, Str(S_empty), Str(S_abc)}
          [] rule.kind = "enum" ->
               {Undefined, Null, Str(rule.values[1]),
                Str(rule.values[Len(rule.values)]), Str(S_SOLD_OUT), Str(S_Active)}
          [] rule.kind = "email_or_empty" ->
               {Undefined, Str(S_empty), Str(S_a_at_b_com), Str(S_not_an_email),
                Str(S_a_at_b), Str(S_abc)}

InitSchema ==
    /\ Unmounted
    /\ fn = [name |-> "safeParse", arg |-> Undefined, res |-> FALSE, done |-> FALSE]
    /\ \E d \in {A_ValidDraft, B_ValidDraft} :
       \E f1 \in SchemaFields : \E f2 \in SchemaFields :
       \E v1 \in FieldSamples(f1) : \E v2 \in FieldSamples(f2) :
           draft = [d EXCEPT ![f1] = v1, ![f2] = v2]

\* listingSchema.safeParse(draft)
Validate ==
    /\ fn.name = "safeParse"
    /\ ~fn.done
    /\ fn' = [fn EXCEPT !.res = (DOMAIN SchemaErrors(draft) = {}), !.done = TRUE]
    /\ last' = [Step("validated", "") EXCEPT !.errors = SchemaErrors(draft)]
    /\ UNCHANGED <<page, user, remote, listing, resetState, draft, images,
                   isUploading, isSubmitting, uploads, deletes, updates,
                   calls, nav>>

NextSchema == Validate

SpecSchema == InitSchema /\ [][NextSchema]_vars

(***************************************************************************)
(* The registries and defaults as the claims state them.                   *)
(***************************************************************************)
SchemaEnumFields == EnumFields \cup {"negotiable", "delivery_available"}

ClaimedRegistry(f) ==
    CASE f \in {"organic", "negotiable", "delivery_available", "isYesNo"} ->
             {S_yes, S_no}
      [] f \in {"condition", "isCondition"} ->
             {S_new, S_excellent, S_good, S_fair, S_poor}
      [] f \in {"certification", "isCertification"} ->
             {S_empty, S_organic, S_gap, S_other}
      [] f \in {"payment_terms", "isPaymentTerms"} ->
             {S_empty, S_advance, S_partial, S_delivery, S_credit}
      [] f \in {"status", "isListingStatus"} ->
             {S_active, S_sold, S_expired, S_draft}
      [] f \in {"price_unit", "isPriceUnit"} ->
             {S_total, S_per_kg, S_per_piece}
      [] f \in {"quantity_unit", "isQuantityUnit"} ->
             {S_kg, S_piece, S_ton, S_quintal}

ClaimedDefault(f) ==
    CASE f = "price_unit" -> S_total
      [] f = "quantity_unit" -> S_kg
      [] f \in {"organic", "negotiable", "delivery_available"} -> S_no
      [] f = "condition" -> S_new
      [] f \in {"certification", "payment_terms"} -> S_empty
      [] f = "status" -> S_active

IsRegistryMember(f, x) == x.t = "string" /\ x.v \in ClaimedRegistry(f)

\* the enum fields the Draft of the running page holds once it is loaded
PageEnumFields == IF page = "A" THEN {"status"} ELSE EnumFields

(***************************************************************************)
(* C1: each type guard returns true for every value of its registry,       *)
(* false for every other string and false for every non-string input.      *)
(* Specification SpecGuards.                                               *)
(***************************************************************************)
C1_GuardsDecideMembership ==
    (fn.name \in GuardNames /\ fn.done) =>
        (fn.res <=> (fn.arg.t = "string" /\ fn.arg.v \in ClaimedRegistry(fn.name)))

C1_Witness ==
    /\ fn.done
    /\ fn.name = "isListingStatus"
    /\ fn.arg = Str(S_SOLD_OUT)
    /\ fn.res = FALSE

(***************************************************************************)
(* C2: after the form reset, every enum field of the Draft is a registry   *)
(* member: the remote value when that is a member, else the registry       *)
(* default (total, kg, no, new, '', '', active).  Specification SpecLoad.  *)
(***************************************************************************)
C2_ResetRepairsEnums ==
    resetState = "ok" =>
        \A f \in PageEnumFields :
            LET r == Get(listing.data, f)
            IN  /\ IsRegistryMember(f, draft[f])
                /\ draft[f] = (IF IsRegistryMember(f, r) THEN r
                               ELSE Str(ClaimedDefault(f)))

C2_Witness ==
    /\ page = "B"
    /\ resetState = "ok"
    /\ Get(listing.data, "status") = Str(S_SOLD_OUT)
    /\ draft["status"] = Str(S_active)

(***************************************************************************)
(* C3: in every reachable state of an edit session every enum field the    *)
(* Draft holds is a registry member (before the load page B's Draft holds  *)
(* no enum field, page A's holds status), and every enum value of a        *)
(* submitted payload is a registry member.  Specification Spec.            *)
(***************************************************************************)
C3_DraftEnumsValid ==
    /\ \A f \in SchemaEnumFields :
           draft[f] = Undefined \/ IsRegistryMember(f, draft[f])
    /\ (page = "A" \/ resetState = "ok") =>
           \A f \in PageEnumFields : IsRegistryMember(f, draft[f])
    /\ \A u \in updates :
           /\ \A f \in SchemaEnumFields :
                  u.data[f] = Undefined \/ IsRegistryMember(f, u.data[f])
           /\ \A f \in PageEnumFields : IsRegistryMember(f, u.data[f])

C3_Witness ==
    /\ page = "B"
    /\ updates # {}
    /\ draft["condition"] # B_ResetValues(listing.data)["condition"]

(***************************************************************************)
(* C4: normalizing a remote record never fails: an invalid status becomes  *)
(* "active", a null price or quantity becomes the empty string, a null     *)
(* image list becomes the empty sequence and a null nullable text field    *)
(* becomes the empty string.  Specification SpecLoad.                      *)
(***************************************************************************)
NullableTextFields ==
    IF page = "A"
    THEN {"location_address", "contact_name", "contact_phone", "contact_email"}
    ELSE {"title", "description", "location_city", "location_state",
          "location_country"}

C4_NormalizeNeverFails ==
    listing.status = "success" =>
        LET l == listing.data
        IN  /\ resetState = "ok"
            /\ ~IsRegistryMember("status", Get(l, "status")) =>
                   draft["status"] = Str(S_active)
            /\ IsNullish(Get(l, "price")) => draft["price"] = Str(S_empty)
            /\ IsNullish(Get(l, "quantity")) => draft["quantity"] = Str(S_empty)
            /\ IsNullish(Get(l, "images")) => DraftImages = <<>>
            /\ \A f \in NullableTextFields :
                   IsNullish(Get(l, f)) => draft[f] = Str(S_empty)

(***************************************************************************)
(* C5: for a remote record with numeric price and quantity and enum fields *)
(* that are registry members, the update payload built from the unedited   *)
(* Draft has the record's price and quantity as numbers and the record's   *)
(* enum values.  Specification SpecLoad.                                   *)
(***************************************************************************)
\* the payload onSubmit builds from a Draft
PayloadOf(d) ==
    IF page = "A" THEN A_listingData(SchemaData(d))
    ELSE B_updateData(SchemaData(d), images)

C5_RoundTrip ==
    LET l == listing.data
    IN  (/\ listing.status = "success"
         /\ Get(l, "price").t = "number"
         /\ Get(l, "quantity").t = "number"
         /\ \A f \in PageEnumFields : IsRegistryMember(f, Get(l, f))) =>
            /\ PayloadOf(draft)["price"] = Get(l, "price")
            /\ PayloadOf(draft)["quantity"] = Get(l, "quantity")
            /\ \A f \in PageEnumFields : PayloadOf(draft)[f] = Get(l, f)

(***************************************************************************)
(* C6: validation reports the required error for title, description and    *)
(* category_id whenever that field is the empty string, and reports no     *)
(* error for a Draft whose required fields are non-empty and whose enum    *)
(* fields are registry members or absent.  Specification SpecSchema.       *)
(***************************************************************************)
C6_RequiredMessage(f) ==
    CASE f = "title" -> "Title is required"
      [] f = "description" -> "Description is required"
      [] f = "category_id" -> "Category is required"

C6_EmptyRequiredRejected ==
    \A f \in {"title", "description", "category_id"} :
        draft[f] = Str(S_empty) =>
            /\ f \in DOMAIN last.errors
            /\ last.errors[f] = C6_RequiredMessage(f)

C6_Populated ==
    /\ \A f \in {"title", "description", "price", "quantity", "category_id",
                 "location_city"} :
           draft[f].t = "string" /\ draft[f].v # S_empty
    /\ \A f \in SchemaEnumFields :
           draft[f] = Undefined \/ IsRegistryMember(f, draft[f])

C6_EmailAcceptable ==
    \/ draft["contact_email"] = Undefined
    \/ draft["contact_email"] = Str(S_empty)
    \/ draft["contact_email"].t = "string" /\ IsEmail(draft["contact_email"].v)

\* the claim as written
C6_Original ==
    fn.done =>
        /\ C6_EmptyRequiredRejected
        /\ C6_Populated => DOMAIN last.errors = {}

\* amended: ... and whose contact_email is absent, empty or well-formed
C6_Amended ==
    fn.done =>
        /\ C6_EmptyRequiredRejected
        /\ (C6_Populated /\ C6_EmailAcceptable) => DOMAIN last.errors = {}

C6_Witness ==
    /\ fn.done
    /\ C6_Populated
    /\ draft["contact_email"] = Str(S_a_at_b_com)
    /\ draft["status"] = Undefined
    /\ DOMAIN last.errors = {}

(***************************************************************************)
(* C7: the contact_email rule accepts the empty string, an absent value    *)
(* and a well-formed address such as a@b.com, and rejects every other      *)
(* non-empty string, such as not-an-email, with 'Invalid email address'.   *)
(* Specification SpecSchema.                                               *)
(***************************************************************************)
C7_EmailRule ==
    fn.done =>
        LET e == draft["contact_email"]
            rejected == "contact_email" \in DOMAIN last.errors
        IN  /\ e \in {Undefined, Str(S_empty), Str(S_a_at_b_com)} => ~rejected
            /\ e \in {Str(S_not_an_email), Str(S_a_at_b), Str(S_abc)} => rejected
            /\ (e.t = "string" /\ e.v # S_empty /\ ~IsEmail(e.v)) => rejected
            /\ rejected => last.errors["contact_email"] = "Invalid email address"

C7_Witness ==
    /\ fn.done
    /\ draft["contact_email"] = Str(S_not_an_email)
    /\ "contact_email" \in DOMAIN last.errors
    /\ last.errors["contact_email"] = "Invalid email address"

(***************************************************************************)
(* C8: the image list never holds more than 5 URLs, and the storage        *)
(* upload is not invoked while the list already holds 5.  Specification    *)
(* SpecImages.                                                             *)
(***************************************************************************)
C8_ImageCapacity ==
    /\ Len(DraftImages) <= 5
    /\ last.op = "upload_call" => Len(last.before) < 5

(***************************************************************************)
(* C9: removing a URL that is not in the image list leaves the list        *)
(* unchanged.  Specification SpecImages.                                   *)
(***************************************************************************)
C9_RemoveAbsentIsNoOp ==
    (last.op = "delete_ok" /\ ~Includes(last.before, last.url)) =>
        DraftImages = last.before

C9_Witness ==
    /\ last.op = "delete_ok"
    /\ ~Includes(last.before, last.url)
    /\ Len(last.before) >= 2
    /\ DraftImages = last.before

(***************************************************************************)
(* C10: every payload handed to the remote update carries price and        *)
(* quantity parsed to numbers; a text that does not parse never reaches    *)
(* the remote update.  Specification Spec.                                 *)
(***************************************************************************)
C10_NumericPayload ==
    \A u \in updates :
        /\ u.data["price"].t = "number"
        /\ u.data["quantity"].t = "number"

(***************************************************************************)
(* C11: at most one update submission is in flight at any time: the number *)
(* of unresolved updateListing calls never exceeds 1.  Specification Spec. *)
(***************************************************************************)
C11_SingleInFlight == Cardinality(updates) <= 1

(***************************************************************************)
(* C12: image list mutations are atomic under concurrency: for uploads and *)
(* deletes started concurrently and resolving in any order, once all have  *)
(* resolved the image list holds every loaded or successfully uploaded URL *)
(* that was not deleted and no successfully deleted URL.  Specification    *)
(* SpecImages.                                                             *)
(***************************************************************************)
\* the image list the load put into the Draft
LoadedImages ==
    IF resetState # "ok" THEN <<>>
    ELSE IF page = "A" THEN A_ResetValues(listing.data)["images"].v
    ELSE B_ResetImages(listing.data, <<>>)

C12_ImageMutationsAtomic ==
    (uploads = {} /\ deletes = {}) =>
        Range(DraftImages) =
            (Range(LoadedImages) \cup calls.added) \ calls.removed

C12_Witness ==
    /\ uploads = {}
    /\ deletes = {}
    /\ calls.overlapped
    /\ calls.added # {}
    /\ calls.removed # {}
    /\ calls.added \subseteq Range(DraftImages)

(***************************************************************************)
(* C13: a failed storage call leaves the image list unchanged and is       *)
(* reported: when the upload throws or returns no URL no URL is added,     *)
(* when the delete fails the URL stays, and in each case a notification is *)
(* shown.  Specification SpecImages.                                       *)
(***************************************************************************)
C13_FailureLeavesList ==
    last.op \in {"upload_threw", "upload_empty", "delete_failed"} =>
        /\ DraftImages = last.before
        /\ last.toast # ""

(***************************************************************************)
(* C14: not-found / not-authorized is terminal: when the fetch returns no  *)
(* record or an error, or the record's user_id differs from the current    *)
(* user's id, the editable form is never rendered, the Draft is never      *)
(* populated from the record and no update is submitted.  Specification    *)
(* SpecLoad.                                                               *)
(***************************************************************************)
\* a signed-in user who is not the owner of the remote record
NotOwned == remote # NoRecord /\ user # NoUser /\ remote.user_id # user

C14_NotFoundIsTerminal ==
    (remote = NoRecord \/ listing.status = "error" \/ NotOwned) =>
        /\ ~FormRendered
        /\ resetState = "none"
        /\ draft = (IF page = "A" THEN A_defaultValues ELSE B_defaultValues)
        /\ images = <<>>
        /\ updates = {}

(***************************************************************************)
(* C15: with no authenticated user no listing is fetched, the editable     *)
(* form is not shown, no Draft is populated and nothing is submitted; the  *)
(* only step the page takes is the navigation to the login route.          *)
(* Specification SpecLoad.                                                 *)
(***************************************************************************)
C15_UnauthenticatedSeesNothing ==
    user = NoUser =>
        /\ listing = Pending
        /\ ~FormRendered
        /\ resetState = "none"
        /\ draft = (IF page = "A" THEN A_defaultValues ELSE B_defaultValues)
        /\ updates = {}
        /\ last.op \in {"none", "auth_redirect"}

(***************************************************************************)
(* C16: the storage upload is never invoked for a file whose content type  *)
(* is outside the accepted set or whose size exceeds 5 MB; such a file is  *)
(* rejected with a notification and the image list is unchanged, while a   *)
(* file of exactly 5 MB with an accepted type is passed on.  Specification *)
(* SpecImages.                                                             *)
(***************************************************************************)
C16_FileRule(accepted) ==
    LET file == last.file
        picked == last.op \in {"upload_call", "upload_rejected"}
        good == file.type \in accepted /\ file.size <= 5 * 1024 * 1024
    IN  /\ last.op = "upload_call" => good
        /\ (picked /\ ~good) =>
               /\ last.op = "upload_rejected"
               /\ last.toast # ""
               /\ DraftImages = last.before
        /\ (picked /\ good) => last.op = "upload_call"

\* the claim as written: the accepted set is {image/jpeg, image/png, image/webp}
C16_Original == C16_FileRule({"image/jpeg", "image/png", "image/webp"})

\* amended: EditListing.tsx also accepts the alias image/jpg
C16_Amended ==
    C16_FileRule(IF page = "A"
                 THEN {"image/jpeg", "image/jpg", "image/png", "image/webp"}
                 ELSE {"image/jpeg", "image/png", "image/webp"})

C16_Witness ==
    /\ last.op = "upload_call"
    /\ last.file = [type |-> "image/webp", size |-> 5 * 1024 * 1024]

(***************************************************************************)
(* C17: a validation error blocks submission: while the Draft has a field  *)
(* that listingSchema rejects (an empty or absent required field, a        *)
(* non-empty contact_email that is no address, an enum field holding a     *)
(* non-member), no step starts a remote update, and an attempted submit    *)
(* reports the errors instead.  Specification Spec.                        *)
(***************************************************************************)
C17_DraftInvalid ==
    \/ \E f \in {"title", "description", "price", "quantity", "category_id",
                 "location_city"} :
           draft[f].t # "string" \/ draft[f].v = S_empty
    \/ /\ draft["contact_email"].t = "string"
       /\ draft["contact_email"].v # S_empty
       /\ ~IsEmail(draft["contact_email"].v)
    \/ \E f \in SchemaEnumFields :
           draft[f] # Undefined /\ ~IsRegistryMember(f, draft[f])

C17_InvalidDraftNotSent ==
    [][C17_DraftInvalid =>
          /\ updates' \subseteq updates
          /\ last'.op # "submit"]_vars

C17_Witness ==
    /\ last.op = "submit_invalid"
    /\ C17_DraftInvalid
    /\ DOMAIN last.errors # {}
    /\ updates = {}
    /\ nav = ""

(***************************************************************************)
(* C18: a failed remote update preserves the Draft: the step in which      *)
(* updateListing rejects changes no Draft field and not the image list,    *)
(* does not navigate, shows the failure notification, and leaves a Draft   *)
(* that still yields the payload that was sent and can be submitted again. *)
(* Specification Spec.                                                     *)
(***************************************************************************)
C18_FailedUpdateKeepsDraft ==
    [][(last'.op = "update_failed" /\ updates' # updates) =>
          /\ draft' = draft
          /\ images' = images
          /\ nav' = nav
          /\ last'.toast = "Failed to update listing"
          /\ \A u \in updates \ updates' : u.data = PayloadOf(draft)
          /\ nav = "" => (FormRendered /\ ~isSubmitting' /\ ~isUploading')]_vars

C18_Witness ==
    /\ page = "A"
    /\ last.op = "update_failed"
    /\ draft["title"] = Str(S_abc)
    /\ updates = {}
    /\ nav = ""
    /\ FormRendered
    /\ SubmitEnabled
    /\ DOMAIN SchemaErrors(draft) = {}

(***************************************************************************)
(* C19: a required text field (title, description, location_city,          *)
(* category_id) fails validation with its 'required' error whenever it is  *)
(* empty after trimming, so also when it holds only whitespace.            *)
(* Specification SpecSchema.                                               *)
(***************************************************************************)
C19_RequiredMessage(f) ==
    CASE f = "title" -> "Title is required"
      [] f = "description" -> "Description is required"
      [] f = "location_city" -> "City is required"
      [] f = "category_id" -> "Category is required"

C19_BlankRequiredRejected ==
    fn.done =>
        \A f \in {"title", "description", "location_city", "category_id"} :
            (/\ draft[f].t = "string"
             /\ \A i \in DOMAIN draft[f].v : draft[f].v[i] = " ") =>
                /\ f \in DOMAIN last.errors
                /\ last.errors[f] = C19_RequiredMessage(f)

(***************************************************************************)
(* C20: for every enum field of listingSchema an absent value validates    *)
(* without error and is replaced by the registry default; a present value  *)
(* validates iff it is a registry member and is then passed through        *)
(* unchanged; a present non-member produces an error for that field.       *)
(* Specification SpecSchema.                                               *)
(***************************************************************************)
C20_EnumRule ==
    fn.done =>
        \A f \in SchemaEnumFields :
            LET x == draft[f]
                rejected == f \in DOMAIN last.errors
                output == SchemaData(draft)[f]
            IN  /\ x = Undefined =>
                       (~rejected /\ output = Str(ClaimedDefault(f)))
                /\ x # Undefined =>
                       /\ rejected <=> ~IsRegistryMember(f, x)
                       /\ ~rejected => output = x

C20_Witness ==
    /\ fn.done
    /\ draft["status"] = Undefined
    /\ "status" \notin DOMAIN last.errors
    /\ draft["condition"] = Str(S_SOLD_OUT)
    /\ "condition" \in DOMAIN last.errors

(***************************************************************************)
(* Submission of a filled form: the listing is loaded, the Draft holds     *)
(* what the user typed into the optional inputs, and the user submits.     *)
(***************************************************************************)
OptionalTextFields ==
    {"location_address", "contact_name", "contact_phone", "contact_email"}

\* Drafts of page A after typing: the optional inputs are empty or filled
A_TypedDrafts ==
    {[A_ValidDraft EXCEPT !["title"] = Str(t),
                          !["location_address"] = Str(a),
                          !["contact_name"] = Str(n),
                          !["contact_phone"] = Str(ph),
                          !["contact_email"] = Str(e)] :
        t \in {S_abc, S_empty}, a \in {S_empty, S_abc}, n \in {S_empty, S_abc},
        ph \in {S_empty, S_3}, e \in {S_empty, S_a_at_b_com}}

\* remote records whose status is each member of the registry
StatusRecords ==
    {[ValidRecord EXCEPT !["status"] = Str(st)] : st \in Range(ListingStatusEnum)}

InitSubmit ==
    /\ page \in {"A", "B"}
    /\ user = "u1"
    /\ remote \in StatusRecords
    /\ listing = Success(remote)
    /\ resetState = (IF page = "A" THEN "threw" ELSE "ok")
    /\ draft \in (IF page = "A" THEN A_TypedDrafts ELSE {B_ResetValues(remote)})
    /\ images = (IF page = "A" THEN <<>> ELSE B_ResetImages(remote, <<>>))
    /\ isUploading = FALSE
    /\ isSubmitting = FALSE
    /\ uploads = {}
    /\ deletes = {}
    /\ updates = {}
    /\ calls = NoCalls
    /\ nav = ""
    /\ last = NoStep
    /\ fn = NoFn

NextSubmit ==
    \/ Submit
    \/ \E u \in updates : \E ok \in BOOLEAN : UpdateResolve(u, ok)

SpecSubmit == InitSubmit /\ [][NextSubmit]_vars

(***************************************************************************)
(* C21: in the update payload every optional text field (location_address, *)
(* contact_name, contact_phone, contact_email) that is the empty string in *)
(* the Draft is null, every non-empty one is unchanged, and status is the  *)
(* value the Draft holds.  Specification SpecSubmit.                       *)
(***************************************************************************)
C21_EmptyOptionalSentAsNull ==
    \A u \in updates :
        /\ \A f \in OptionalTextFields :
               /\ draft[f] = Str(S_empty) => u.data[f] = Null
               /\ (draft[f].t = "string" /\ draft[f].v # S_empty) =>
                      u.data[f] = draft[f]
        /\ u.data["status"] = draft["status"]

C21_Witness ==
    /\ page = "A"
    /\ \E u \in updates :
           /\ draft["contact_name"] = Str(S_empty)
           /\ u.data["contact_name"] = Null
           /\ u.data["contact_email"] = Str(S_a_at_b_com)
           /\ u.data["status"] = Str(S_active)

(***************************************************************************)
(* C22: image order is stable: the image list starts in the order received *)
(* from the remote record; a successful upload appends its URL at the end; *)
(* a successful delete removes exactly one occurrence (the first) of the   *)
(* URL; every step keeps the relative order of the URLs that remain.  The  *)
(* URLs of the list are pairwise distinct.  Specification SpecImages.      *)
(***************************************************************************)
C22_RemoveFirst(list, url) ==
    IF \E i \in DOMAIN list : list[i] = url
    THEN LET i == CHOOSE k \in DOMAIN list :
                      list[k] = url /\ \A j \in 1..(k - 1) : list[j] # url
         IN  SubSeq(list, 1, i - 1) \o SubSeq(list, i + 1, Len(list))
    ELSE list

C22_Distinct(list) ==
    \A i \in DOMAIN list : \A j \in DOMAIN list : list[i] = list[j] => i = j

RequiredOrder == <<"title", "description", "price", "quantity",
                   "category_id", "location_city">>

\* the values the visit types: the required fields of a valid Draft
TypedDraft == IF page = "A" THEN A_ValidDraft ELSE B_ValidDraft

\* the required fields the visit has not typed yet
Untyped == {i \in 1..Len(RequiredOrder) :
               draft[RequiredOrder[i]] # TypedDraft[RequiredOrder[i]]}

\* the user fills the next required field, top to bottom
TypeRequired ==
    /\ Untyped # {}
    /\ LET i == CHOOSE j \in Untyped : \A k \in Untyped : j <= k
           f == RequiredOrder[i]
       IN  IF f = "category_id"
           THEN SelectCategory(TypedDraft[f].v)
           ELSE EditText(f, TypedDraft[f].v)

\* a file that passes the client-side checks of both pages
GoodFiles == {file \in Files : file.type = "image/jpeg"}

\* the visit makes at most MaxUploads image requests, uploads and deletes
\* together, and types before it touches the images
ImageBudget == calls.upload + calls.delete < MaxUploads

InitPage == InitWith({[ValidRecord EXCEPT !["images"] = Arr(<<1>>)]}, {"u1"})

NextPage ==
    \/ FetchResolve
    \/ calls = NoCalls /\ TypeRequired
    \/ \E file \in GoodFiles : ImageBudget /\ UploadPick(file)
    \/ \E id \in uploads : \E outcome \in {"url", "threw"} :
           UploadResolve(id, outcome)
    \/ \E url \in Range(DraftImages) : ImageBudget /\ DeleteClick(url)
    \/ \E d \in deletes : \E ok \in BOOLEAN : DeleteResolve(d, ok)
    \/ Submit
    \/ \E u \in updates : \E ok \in BOOLEAN : UpdateResolve(u, ok)
    \/ Cancel

SpecPage == InitPage /\ [][NextPage]_vars

View_ignoresError ==
    IF page = "A" /\ user = NoUser THEN "blank"
    ELSE IF listing.status = "success" THEN "form"
    ELSE "loading"

\* what the component returns: A render guards lines 329-394 (no user:
\* null; query error: the error view; loading: the loader; no listing: the
\* Not Found view), B render guards lines 248-272 (loading: the loader;
\* no listing: "Listing not found"); otherwise the form
View ==
    IF page = "A" /\ user = NoUser THEN "blank"
    ELSE IF page = "A" /\ listing.status = "error" THEN "error"
    ELSE IF listing.status = "pending" THEN "loading"
    ELSE IF listing.status # "success" THEN "not_found"
    ELSE "form"

\* the steps in which a remote call of a handler failed
HandlerFailures == {"upload_threw", "delete_failed", "update_failed"}

(***************************************************************************)
(* C23: every failure of a remote call is caught where the call is made:   *)
(* a failed fetch ends in the error view (page A) or the not-found view    *)
(* (page B); a failed upload, delete or update ends in a notification, the *)
(* call is no longer in flight, and the form is still the rendered view;   *)
(* in no state is the view the loader while no fetch is pending.           *)
(* Specification SpecPage.                                                 *)
(***************************************************************************)
C23_FailuresAreCaught ==
    /\ last.op = "fetch_error" =>
           View = (IF page = "A" THEN "error" ELSE "not_found")
    /\ last.op \in HandlerFailures => last.toast # "" /\ View = "form"
    /\ View = "loading" => listing = Pending
    /\ FormRendered => View = "form"

C23_Witness ==
    /\ last.op = "update_failed"
    /\ last.toast = "Failed to update listing"
    /\ View = "form"
    /\ updates = {}
    /\ calls.upload > 0

(***************************************************************************)
(* C24: load-then-save is the identity on the remote record: every update  *)
(* sent from an unedited Draft carries, in each field it contains other    *)
(* than updated_at, the value the loaded record has in that field.         *)
(* Specification SpecLoad, whose records include price_unit 'per_acre',    *)
(* quantity_unit 'tons' and null enum values, and which has no edit.       *)
(***************************************************************************)
C24_LoadThenSaveIsIdentity ==
    \A u \in updates : \A f \in DOMAIN u.data :
        (f # "updated_at" /\ u.data[f] # Undefined) =>
            u.data[f] = Get(listing.data, f)

\* the image URLs of the persisted listing
PersistedImages ==
    IF remote # NoRecord /\ remote["images"].t = "array"
    THEN Range(remote["images"].v) ELSE {}

\* the visit is over: the page navigated away and no call is in flight
VisitOver == nav # "" /\ uploads = {} /\ deletes = {} /\ updates = {}

(***************************************************************************)
(* C25: the persisted listing never references a deleted image: when the   *)
(* visit is over, whether by a saved submit or by Cancel, no URL of the    *)
(* remote record's image list is one whose storage object a delete of the  *)
(* visit removed.  Specification SpecPage.                                 *)
(***************************************************************************)
C25_NoDanglingImage ==
    VisitOver => PersistedImages \cap calls.removed = {}

\* the promise of updateListing.mutateAsync settles: every update in
\* flight is eventually acknowledged or rejected
UpdateSettles == \E u \in updates : \E ok \in BOOLEAN : UpdateResolve(u, ok)

SpecSubmitFair == SpecSubmit /\ WF_vars(UpdateSettles)

(***************************************************************************)
(* C26: on page EditListing.tsx isSubmitting is true exactly while an      *)
(* update call is unresolved: false at the start, true from the submit     *)
(* that makes the call, and whenever it is true it is eventually false     *)
(* again, whether the call succeeds or fails.                              *)
(* Specification SpecSubmitFair.                                           *)
(***************************************************************************)
C26_SubmittingWhileUnresolved ==
    /\ [](page = "A" => (isSubmitting <=> updates # {}))
    /\ ((page = "A" /\ isSubmitting) ~> ~isSubmitting)

C26_Witness ==
    /\ page = "A"
    /\ last.op = "update_failed"
    /\ ~isSubmitting
    /\ SubmitEnabled
    /\ nav = ""

\* the preconditions of a submit are missing: no listing is loaded
\* (EditListing.tsx) or no user is signed in (part_000)
C27_MissingPreconditions ==
    IF page = "A" THEN listing.status # "success" ELSE user = NoUser

(***************************************************************************)
(* C27: a submit with missing preconditions makes no remote call: while    *)
(* the preconditions are missing no update call exists, and the step of    *)
(* an onSubmit that returns early leaves the update calls, the navigation, *)
(* the Draft and isSubmitting as they were.  Specification SpecLoad.       *)
(***************************************************************************)
C27_EarlyReturnDoesNothing ==
    /\ [](C27_MissingPreconditions => updates = {})
    /\ [][(C27_MissingPreconditions /\ last'.op \in {"submit", "submit_returned"}) =>
             /\ last'.op = "submit_returned"
             /\ updates' = updates
             /\ nav' = nav
             /\ draft' = draft
             /\ isSubmitting' = isSubmitting]_vars

C27_Witness ==
    /\ page = "B"
    /\ user = NoUser
    /\ last.op = "submit_returned"
    /\ updates = {}
    /\ nav = ""

\* the image URLs a payload carries
PayloadImages(data) ==
    IF data["images"].t = "array" THEN Range(data["images"].v) ELSE {}

(***************************************************************************)
(* C28: no submission starts while an image upload is in flight, and the   *)
(* payload of a submission carries every URL that an upload of the visit   *)
(* returned before it and that was not deleted since.                      *)
(* Specification SpecPage.                                                 *)
(***************************************************************************)
C28_SubmitAfterUploads ==
    last.op = "submit" =>
        /\ uploads = {}
        /\ \E u \in updates :
               (calls.added \ calls.removed) \subseteq PayloadImages(u.data)

\* the success notification of onSubmit
C29_SuccessToast == "Listing updated successfully"

(***************************************************************************)
(* C29: the success notification and the navigation to '/listings' of      *)
(* onSubmit happen only in the step in which an update call is             *)
(* acknowledged, once for that call: such a step removes exactly one       *)
(* update call from those in flight, every other step that navigates to    *)
(* '/listings' is a Cancel, and the step in which an update fails neither  *)
(* navigates nor shows the success notification.                           *)
(* Specification SpecPage.                                                 *)
(***************************************************************************)
C29_NavigateAfterAcknowledge ==
    [][/\ (last'.toast = C29_SuccessToast \/
            (nav' = "/listings" /\ nav' # nav)) =>
              \/ last'.op = "cancel" /\ last'.toast = "" /\ updates' = updates
              \/ /\ last'.op = "update_ok"
                 /\ last'.toast = C29_SuccessToast
                 /\ nav' = "/listings"
                 /\ \E u \in updates : updates' = updates \ {u}
       /\ last'.op = "update_failed" =>
              /\ nav' = nav
              /\ last'.toast # C29_SuccessToast]_vars

C29_Witness ==
    /\ last.op = "update_ok"
    /\ last.toast = C29_SuccessToast
    /\ nav = "/listings"
    /\ updates = {}
    /\ calls.delete > 0

(***************************************************************************)
(* The coercion helpers applied to arbitrary values, once and then again   *)
(* to their own result.                                                    *)
(***************************************************************************)
ValidateNames == {"validatePriceUnit", "validateQuantityUnit", "validateYesNo",
                  "validateCondition", "validateCertification",
                  "validatePaymentTerms", "validateStatus"}

ValidateFn(name, value) ==
    CASE name = "validatePriceUnit" -> validatePriceUnit(value)
      [] name = "validateQuantityUnit" -> validateQuantityUnit(value)
      [] name = "validateYesNo" -> validateYesNo(value)
      [] name = "validateCondition" -> validateCondition(value)
      [] name = "validateCertification" -> validateCertification(value)
      [] name = "validatePaymentTerms" -> validatePaymentTerms(value)
      [] name = "validateStatus" -> validateStatus(value)

InitValidate ==
    /\ Unmounted
    /\ draft = B_defaultValues
    /\ \E name \in ValidateNames : \E value \in GuardInputs :
           fn = [name |-> name, arg |-> value, res |-> Undefined,
                 again |-> Undefined, done |-> 0]

\* one application of the helper: to the argument, then to its own result
ApplyValidate ==
    /\ fn.name \in ValidateNames
    /\ fn.done < 2
    /\ fn' = IF fn.done = 0
             THEN [fn EXCEPT !.res = ValidateFn(fn.name, fn.arg), !.done = 1]
             ELSE [fn EXCEPT !.again = ValidateFn(fn.name, fn.res), !.done = 2]
    /\ UNCHANGED <<page, user, remote, listing, resetState, draft, images,
                   isUploading, isSubmitting, uploads, deletes, updates,
                   calls, nav, last>>

NextValidate == ApplyValidate

SpecValidate == InitValidate /\ [][NextValidate]_vars

\* the Draft field whose registry and default a helper is claimed to use
C30_Field(name) ==
    CASE name = "validatePriceUnit" -> "price_unit"
      [] name = "validateQuantityUnit" -> "quantity_unit"
      [] name = "validateYesNo" -> "organic"
      [] name = "validateCondition" -> "condition"
      [] name = "validateCertification" -> "certification"
      [] name = "validatePaymentTerms" -> "payment_terms"
      [] name = "validateStatus" -> "status"

(***************************************************************************)
(* C30: each coercion helper is idempotent and the identity on its         *)
(* registry: its default (total, kg, no, new, '', '', active) is a         *)
(* registry member, the result for a registry member is that member, the   *)
(* result for any other input is the default, and applying the helper to   *)
(* its own result returns that result.  Specification SpecValidate.        *)
(***************************************************************************)
C30_ValidateIdempotent ==
    LET f == C30_Field(fn.name)
    IN  /\ ClaimedDefault(f) \in ClaimedRegistry(f)
        /\ fn.done >= 1 =>
               /\ IsRegistryMember(f, fn.arg) => fn.res = fn.arg
               /\ ~IsRegistryMember(f, fn.arg) => fn.res = Str(ClaimedDefault(f))
               /\ IsRegistryMember(f, fn.res)
        /\ fn.done = 2 => fn.again = fn.res

C30_Witness ==
    /\ fn.name = "validateQuantityUnit"
    /\ fn.arg = Str(S_tons)
    /\ fn.done = 2
    /\ fn.res = Str(S_kg)
    /\ fn.again = Str(S_kg)

====
